---- MODULE Spec2Model ----
(***************************************************************************)
(* Model of the physical frame allocator (EarlyFrameAllocator) of the      *)
(* kernel's paging core, src/os/src/paging/frame_allocator.rs.             *)
(*                                                                         *)
(* Addresses are byte addresses, as in the source.  All addresses of the   *)
(* model are below 2^31, so the u64 arithmetic of the source never wraps   *)
(* and PhysAddr::new (which rejects addresses with bits 52..63 set) never  *)
(* fails on them.                                                          *)
(***************************************************************************)
EXTENDS Integers, Sequences, FiniteSets, TLC

(***************************************************************************)
(* Program constants                                                       *)
(***************************************************************************)
PAGE_SIZE == 4096

MAX_USABLE_RANGES == 32

LOW_WATERMARK_BYTES == 16 * 1024 * 1024

MIN_WATERMARK_BYTES == 4 * 1024 * 1024

LOW_MEMORY_END == 1048576

(***************************************************************************)
(* Bounds of the model                                                     *)
(***************************************************************************)
MaxRegions == 3

MaxCalls == 5

MaxMapCalls == 1

\* calls made in a run of the address-space lifecycle
MaxLifeCalls == 3

\* the longest memory map given to new(); the allocator keeps 32 ranges
MaxLongMap == 38

(***************************************************************************)
(* Inputs: the bootloader memory map and the kernel image bounds           *)
(***************************************************************************)
Region(s, e, k) == [start |-> s, end |-> e, kind |-> k]

\* Regions the memory maps of the model are built from: usable and
\* non-usable regions, page-aligned and unaligned bounds, regions below,
\* across and above the reserved prefix, regions that overlap each other,
\* and regions whose size is just above the 4 MiB and 16 MiB watermarks.
RegionPool ==
    { Region(0, 655359, "Usable"),              \* 0x0      .. 0x9FFFF
      Region(655359, 1048576, "Reserved"),      \* 0x9FFFF  .. 0x100000
      Region(1048576, 536870912, "Usable"),     \* 0x100000 .. 0x20000000
      Region(1048576, 2109440, "Usable"),       \* 0x100000 .. 0x203000
      Region(2097152, 2101248, "Usable"),       \* 0x200000 .. 0x201000
      Region(2107392, 2117632, "Usable"),       \* 0x202800 .. 0x205000
      Region(2117632, 2123776, "Usable"),       \* 0x205000 .. 0x206800
      Region(2125824, 2134016, "Reserved"),     \* 0x207000 .. 0x209000
      Region(1048576, 6295552, "Usable"),       \* 0x100000 .. 0x601000
      Region(1048576, 18878464, "Usable") }     \* 0x100000 .. 0x1201000

KernelStarts == { 1048576 }                     \* 0x100000

KernelEnds == { 0, 2097152, 2099200 }           \* 0, 0x200000, 0x200800

RECURSIVE SeqsUpTo(_, _)
SeqsUpTo(S, n) ==
    IF n = 0 THEN { << >> }
    ELSE LET shorter == SeqsUpTo(S, n - 1)
         IN  shorter \cup { Append(m, r) : m \in shorter, r \in S }

MemoryMaps == SeqsUpTo(RegionPool, MaxRegions)

(***************************************************************************)
(* x86_64 crate helpers                                                    *)
(***************************************************************************)
align_down(addr, align) == addr - (addr % align)

align_up(addr, align) ==
    IF addr % align = 0 THEN addr ELSE (addr - (addr % align)) + align

\* Variant of containing_address that keeps the address as it is.
containing_address_unaligned(addr) == addr

\* PhysFrame::containing_address: the frame that contains addr
containing_address(addr) == align_down(addr, PAGE_SIZE)

Max(a, b) == IF a >= b THEN a ELSE b

(***************************************************************************)
(* EarlyFrameAllocator::new                                                *)
(***************************************************************************)
EmptyRanges == [i \in 1..MAX_USABLE_RANGES |-> <<0, 0>>]

\* Variant of NewStep that does not trim the overlap with the reserved prefix.
NewStep_no_trim(acc, region, reserved_end) ==
    IF region.kind # "Usable" THEN acc
    ELSE LET start == align_up(region.start, PAGE_SIZE)
             end   == align_down(region.end, PAGE_SIZE)
         IN  IF end <= reserved_end THEN acc
             ELSE IF start >= end THEN acc
                  ELSE IF acc.len < MAX_USABLE_RANGES
                       THEN [ranges |-> [acc.ranges EXCEPT
                                           ![acc.len + 1] = <<start, end>>],
                             len    |-> acc.len + 1,
                             total  |-> acc.total + (end - start)]
                       ELSE acc

\* Variant of NewStep that still counts the size of a region it has no slot
\* for.
NewStep_count_dropped(acc, region, reserved_end) ==
    IF region.kind # "Usable" THEN acc
    ELSE LET start0 == align_up(region.start, PAGE_SIZE)
             end    == align_down(region.end, PAGE_SIZE)
         IN  IF end <= reserved_end THEN acc
             ELSE LET start == IF start0 < reserved_end
                               THEN reserved_end ELSE start0
                  IN  IF start >= end THEN acc
                      ELSE IF acc.len < MAX_USABLE_RANGES
                           THEN [ranges |-> [acc.ranges EXCEPT
                                               ![acc.len + 1] = <<start, end>>],
                                 len    |-> acc.len + 1,
                                 total  |-> acc.total + (end - start)]
                           ELSE [acc EXCEPT !.total = @ + (end - start)]

\* One iteration of the loop over memory_regions.
\* acc = [ranges, len, total]; index i of the source is index i+1 here.
NewStep(acc, region, reserved_end) ==
    IF region.kind # "Usable" THEN acc
    ELSE LET start0 == align_up(region.start, PAGE_SIZE)
             end    == align_down(region.end, PAGE_SIZE)
         IN  IF end <= reserved_end THEN acc
             ELSE LET start == IF start0 < reserved_end
                               THEN reserved_end ELSE start0
                  IN  IF start >= end THEN acc
                      ELSE IF acc.len < MAX_USABLE_RANGES
                           THEN [ranges |-> [acc.ranges EXCEPT
                                               ![acc.len + 1] = <<start, end>>],
                                 len    |-> acc.len + 1,
                                 total  |-> acc.total + (end - start)]
                           ELSE acc

\* The loop over memory_regions from index k on.  len is a usize: the test
\* on it never ends the loop, it has the accumulator evaluated at every
\* iteration, as the loop of the source does.
RECURSIVE NewLoop(_, _, _, _)
NewLoop(acc, memory_regions, k, reserved_end) ==
    IF k > Len(memory_regions) \/ acc.len \notin Nat THEN acc
    ELSE NewLoop(NewStep(acc, memory_regions[k], reserved_end),
                 memory_regions, k + 1, reserved_end)

new(memory_regions, kernel_start_, kernel_end_) ==
    LET reserved_end == Max(kernel_end_, LOW_MEMORY_END)
        acc == NewLoop([ranges |-> EmptyRanges, len |-> 0, total |-> 0],
                       memory_regions, 1, reserved_end)
    IN  [ranges        |-> acc.ranges,
         len           |-> acc.len,
         next          |-> 0,
         initial_total |-> acc.total]

(***************************************************************************)
(* Queries                                                                 *)
(***************************************************************************)
range_count(self) == self.len

total_memory(self) == self.initial_total

RECURSIVE SumFree(_, _)
SumFree(self, k) ==
    IF k = 0 THEN 0
    ELSE LET start == self.ranges[k][1]
             end   == self.ranges[k][2]
         IN  SumFree(self, k - 1) + (IF end > start THEN end - start ELSE 0)

available_memory(self) == SumFree(self, self.len)

\* u64::saturating_sub
saturating_sub(a, b) == IF a >= b THEN a - b ELSE 0

allocated_memory(self) ==
    saturating_sub(self.initial_total, available_memory(self))

stats(self) ==
    LET available_bytes == available_memory(self)
        allocated_bytes == allocated_memory(self)
        total_bytes     == self.initial_total
        frame_size      == PAGE_SIZE
    IN  [total_frames        |-> total_bytes \div frame_size,
         allocated_frames    |-> allocated_bytes \div frame_size,
         available_frames    |-> available_bytes \div frame_size,
         total_bytes         |-> total_bytes,
         allocated_bytes     |-> allocated_bytes,
         available_bytes     |-> available_bytes,
         range_count         |-> self.len,
         below_low_watermark |-> available_bytes < LOW_WATERMARK_BYTES,
         below_min_watermark |-> available_bytes < MIN_WATERMARK_BYTES]

is_low_memory(self) == available_memory(self) < LOW_WATERMARK_BYTES

is_critical_memory(self) == available_memory(self) < MIN_WATERMARK_BYTES

(***************************************************************************)
(* FrameAllocator::allocate_frame and try_allocate                         *)
(***************************************************************************)
None == [kind |-> "None"]

Some(frame) == [kind |-> "Some", frame |-> frame]

Err(e) == [kind |-> "Err", error |-> e]

\* Variant of AllocScan that advances the range before reading its start.
RECURSIVE AllocScan_post_increment(_, _)
AllocScan_post_increment(self, j) ==
    LET n == self.len
    IN  IF j >= n THEN [self |-> self, ret |-> None]
        ELSE LET i     == (self.next + j) % n
                 start == self.ranges[i + 1][1]
                 end   == self.ranges[i + 1][2]
             IN  IF start < end
                 THEN [self |-> [self EXCEPT
                                   !.next = i,
                                   !.ranges[i + 1] = <<start + PAGE_SIZE, end>>],
                       ret  |-> Some(containing_address(start + PAGE_SIZE))]
                 ELSE AllocScan_post_increment(self, j + 1)

\* The loop `for j in 0..n`, from iteration j on.  Returns the allocator
\* after the call and the value returned.
RECURSIVE AllocScan(_, _)
AllocScan(self, j) ==
    LET n == self.len
    IN  IF j >= n THEN [self |-> self, ret |-> None]
        ELSE LET i     == (self.next + j) % n
                 start == self.ranges[i + 1][1]
                 end   == self.ranges[i + 1][2]
             IN  IF start < end
                 THEN [self |-> [self EXCEPT
                                   !.next = i,
                                   !.ranges[i + 1] = <<start + PAGE_SIZE, end>>],
                       ret  |-> Some(containing_address(start))]
                 ELSE AllocScan(self, j + 1)

\* Variant of allocate_frame that starts the scan after the hinted range.
allocate_frame_skip_hint(self) == AllocScan(self, 1)

\* Variant of allocate_frame that refuses to allocate below the minimum
\* watermark.
allocate_frame_refuse_below_min(self) ==
    IF available_memory(self) < MIN_WATERMARK_BYTES
    THEN [self |-> self, ret |-> None]
    ELSE AllocScan(self, 0)

allocate_frame(self) == AllocScan(self, 0)

try_allocate(self) ==
    LET r == allocate_frame(self)
    IN  IF r.ret.kind = "Some" THEN r
        ELSE [self |-> r.self,
              ret  |-> IF stats(r.self).available_bytes = 0
                       THEN Err("OutOfMemory") ELSE Err("Fragmented")]

(***************************************************************************)
(* 64-bit values                                                           *)
(*                                                                         *)
(* A u64 is the triple <<top, mid, off>> of its bits 40..63, 12..39 and    *)
(* 0..11: its value is top * 2^40 + mid * 2^12 + off.  The page (or frame) *)
(* number of an address is <<top, mid>>.  Arithmetic is carried out limb   *)
(* by limb so that carries, the 2^64 overflow and the bit tests of the     *)
(* x86_64 crate are those of the source.                                   *)
(***************************************************************************)
TOP_LIMB == 16777216                            \* 2^24

MID_LIMB == 268435456                           \* 2^28

ZERO == <<0, 0, 0>>

U64_MAX == <<16777215, 268435455, 4095>>        \* 0xFFFF_FFFF_FFFF_FFFF

\* a physical address of the frame allocator (below 2^31) as a u64
FromInt(n) == <<0, n \div PAGE_SIZE, n % PAGE_SIZE>>

u64_lt(a, b) ==
    \/ a[1] < b[1]
    \/ a[1] = b[1] /\ a[2] < b[2]
    \/ a[1] = b[1] /\ a[2] = b[2] /\ a[3] < b[3]

u64_le(a, b) == a = b \/ u64_lt(a, b)

\* u64::overflowing_add: the wrapped sum and whether it wrapped
overflowing_add(a, b) ==
    LET o == a[3] + b[3]
        m == a[2] + b[2] + (o \div PAGE_SIZE)
        t == a[1] + b[1] + (m \div MID_LIMB)
    IN  [value    |-> <<t % TOP_LIMB, m % MID_LIMB, o % PAGE_SIZE>>,
         overflow |-> t >= TOP_LIMB]

\* u64::overflowing_sub: the wrapped difference and whether it wrapped
overflowing_sub(a, b) ==
    LET o  == a[3] - b[3]
        bo == IF o < 0 THEN 1 ELSE 0
        m  == a[2] - b[2] - bo
        bm == IF m < 0 THEN 1 ELSE 0
        t  == a[1] - b[1] - bm
    IN  [value    |-> <<(t + TOP_LIMB) % TOP_LIMB, (m + MID_LIMB) % MID_LIMB,
                        (o + PAGE_SIZE) % PAGE_SIZE>>,
         overflow |-> t < 0]

\* value / 4096, as a u64
div_page_size(a) ==
    <<a[1] \div PAGE_SIZE, (a[1] % PAGE_SIZE) * 65536 + (a[2] \div PAGE_SIZE),
      a[2] % PAGE_SIZE>>

(***************************************************************************)
(* Results                                                                 *)
(***************************************************************************)
Ok(v) == [kind |-> "Ok", value |-> v]

\* a panic: the kernel halts
Panic(msg) == [kind |-> "Panic", msg |-> msg]

Misaligned(addr) ==
    [kind |-> "Err", error |-> "Misaligned", addr |-> addr, required |-> PAGE_SIZE]

SizeTooSmall(size) ==
    [kind |-> "Err", error |-> "SizeTooSmall", provided |-> size,
     required |-> PAGE_SIZE]

SizeOverflow(start, size) ==
    [kind |-> "Err", error |-> "SizeOverflow", start |-> start, size |-> size]

KernelAddressInUserSpace(addr) ==
    [kind |-> "Err", error |-> "KernelAddressInUserSpace", addr |-> addr]

(***************************************************************************)
(* x86_64 crate: VirtAddr, PhysAddr                                        *)
(***************************************************************************)
\* bits 47..63 of the address
bits_47_64(addr) == addr[1] \div 128

\* VirtAddr::try_new accepts exactly the canonical addresses: bits 48..63
\* are copies of bit 47.  VirtAddr::new panics on every other address.
is_canonical(addr) == bits_47_64(addr) \in {0, 131071}

\* PhysAddr::new panics when one of the bits 52..63 is set.
is_phys_addr(addr) == addr[1] \div 4096 = 0

\* VirtAddr::is_aligned(align) for the page size
is_aligned(addr) == addr[3] = 0

(***************************************************************************)
(* mapper.rs: constants and validation                                     *)
(***************************************************************************)
KERNEL_SPACE_START == <<16777088, 0, 0>>        \* 0xFFFF_8000_0000_0000

USER_SPACE_END == <<128, 0, 0>>                 \* 0x0000_8000_0000_0000

validate_user_address(addr) ==
    IF u64_le(USER_SPACE_END, addr) THEN KernelAddressInUserSpace(addr)
    ELSE Ok(<< >>)

\* Variant of validate_alignment that only rejects odd addresses.
validate_alignment_odd_only(addr) ==
    IF addr[3] % 2 # 0 THEN Misaligned(addr) ELSE Ok(<< >>)

validate_alignment(addr) ==
    IF ~is_aligned(addr) THEN Misaligned(addr) ELSE Ok(<< >>)

validate_region(start, size) ==
    IF size = ZERO THEN SizeTooSmall(size)
    ELSE LET sum == overflowing_add(start, size)
         IN  IF sum.overflow THEN SizeOverflow(start, size)
             ELSE IF ~is_canonical(sum.value)
                  THEN Panic("virtual address must be sign extended in bits 48 to 64")
                  ELSE IF u64_lt(start, USER_SPACE_END)
                          /\ u64_lt(USER_SPACE_END, sum.value)
                       THEN Err("InvalidRange")
                       ELSE Ok(<<start, sum.value>>)

\* Variant of validate_user_flags that lets the global bit through.
validate_user_flags_allow_global(flags) ==
    IF "USER_ACCESSIBLE" \notin flags THEN Err("InvalidFlags") ELSE Ok(<< >>)

validate_user_flags(flags) ==
    IF "USER_ACCESSIBLE" \notin flags THEN Err("InvalidFlags")
    ELSE IF "GLOBAL" \in flags THEN Err("InvalidFlags")
         ELSE Ok(<< >>)

validate_kernel_flags(flags) ==
    IF "USER_ACCESSIBLE" \in flags THEN Err("InvalidFlags") ELSE Ok(<< >>)

(***************************************************************************)
(* Physical memory and page tables                                         *)
(*                                                                         *)
(* phys maps a frame (the u64 address of its first byte) to its contents   *)
(* read as a page table: a function from entry index to [frame, flags],    *)
(* defined on the entries that are not zero.  A frame that reads as all    *)
(* zeros is the empty function.  A frame outside DOMAIN phys has never     *)
(* been written by the kernel: it holds whatever the RAM held at boot,     *)
(* which `ram` fixes ("zero": all zeros, "stale": leftover data).          *)
(*                                                                         *)
(* The mapping code works on st = [phys, ram, alloc, drawn, refused]: the  *)
(* physical memory, the frame allocator, the frames drawn from it so far   *)
(* and the use ("root", "table", "data") of the frame the allocator could  *)
(* not supply, "none" while every allocation succeeded.                    *)
(***************************************************************************)
PRESENT == "PRESENT"

WRITABLE == "WRITABLE"

USER_ACCESSIBLE == "USER_ACCESSIBLE"

GLOBAL == "GLOBAL"

HUGE_PAGE == "HUGE_PAGE"

ZeroedFrame == [i \in {} |-> i]

\* leftover data: read as a page table, one entry that is not zero
StaleFrame(frame) == [i \in {0} |-> [frame |-> frame, flags |-> {WRITABLE}]]

Put(f, k, v) == [x \in (DOMAIN f) \cup {k} |-> IF x = k THEN v ELSE f[x]]

\* the contents of a frame read through the physical offset
frame_contents(st, frame) ==
    IF frame \in DOMAIN st.phys THEN st.phys[frame]
    ELSE IF st.ram = "zero" THEN ZeroedFrame ELSE StaleFrame(frame)

\* core::ptr::write_bytes(ptr, 0, 4096) through the physical offset
zero_frame(phys, frame) == Put(phys, frame, ZeroedFrame)

reads_zero(st, frame) == frame_contents(st, frame) = ZeroedFrame

\* writes entry idx of the page table in frame `table`
set_entry(st, table, idx, entry) ==
    [st EXCEPT !.phys = Put(@, table, Put(frame_contents(st, table), idx, entry))]

\* Page::p4_index .. p1_index of the page that starts at addr
p4_index(addr) == (addr[1] % 256) * 2 + (addr[2] \div 134217728)

p3_index(addr) == (addr[2] \div 262144) % 512

p2_index(addr) == (addr[2] \div 512) % 512

p1_index(addr) == addr[2] % 512

\* create_next_table on an unused entry: `a` is what allocate_frame
\* returned for the new table.
new_table(st, table, idx, insert_flags, a) ==
    IF a.ret.kind # "Some"
    THEN [st |-> [st EXCEPT !.alloc = a.self, !.refused = "table"],
          res |-> "FrameAllocationFailed", next |-> ZERO]
    ELSE [st   |-> [set_entry(st, table, idx,
                              \* entry.set_frame(frame, insert_flags)
                              [frame |-> FromInt(a.ret.frame),
                               flags |-> insert_flags])
                      EXCEPT
                        \* page_table.zero()
                        !.phys  = zero_frame(@, FromInt(a.ret.frame)),
                        !.alloc = a.self,
                        !.drawn = Append(@, [frame |-> FromInt(a.ret.frame),
                                             use |-> "table"])],
          res  |-> "Ok", next |-> FromInt(a.ret.frame)]

\* create_next_table on an entry in use: the flags asked for are added to
\* the entry, and an entry that maps a huge page is an error.
next_table(st, table, idx, insert_flags, entry) ==
    [st   |-> IF insert_flags # {} /\ ~(insert_flags \subseteq entry.flags)
              THEN set_entry(st, table, idx,
                             [entry EXCEPT !.flags = @ \cup insert_flags])
              ELSE st,
     res  |-> IF HUGE_PAGE \in entry.flags \cup insert_flags
              THEN "ParentEntryHugePage" ELSE "Ok",
     next |-> entry.frame]

\* MappedPageTable::create_next_table on entry idx of the table in frame
\* `table`.  Returns the state, the outcome and the frame of the next table.
create_next_table(st, table, idx, insert_flags) ==
    IF idx \notin DOMAIN frame_contents(st, table)
    THEN new_table(st, table, idx, insert_flags, allocate_frame(st.alloc))
    ELSE next_table(st, table, idx, insert_flags, frame_contents(st, table)[idx])

\* the outcome of map_to when a table above the level-1 table is missing
NotInstalled(r) == [st |-> r.st, res |-> r.res, zero |-> FALSE]

\* map_to below the level-1 table r1.next: an entry in use is an error,
\* else the entry is written.  `zero` tells whether the target frame read
\* as all zeros when the entry was written.
map_to_p1(r1, page, frame, flags) ==
    IF r1.res # "Ok" THEN NotInstalled(r1)
    ELSE IF p1_index(page) \in DOMAIN frame_contents(r1.st, r1.next)
    THEN [st |-> r1.st, res |-> "PageAlreadyMapped", zero |-> FALSE]
    ELSE [st   |-> set_entry(r1.st, r1.next, p1_index(page),
                             [frame |-> frame, flags |-> flags]),
          res  |-> "Ok",
          zero |-> reads_zero(r1.st, frame)]

map_to_p2(r2, page, frame, flags) ==
    IF r2.res # "Ok" THEN NotInstalled(r2)
    ELSE map_to_p1(create_next_table(r2.st, r2.next, p2_index(page),
                                     flags \cap {PRESENT, WRITABLE, USER_ACCESSIBLE}),
                   page, frame, flags)

map_to_p3(r3, page, frame, flags) ==
    IF r3.res # "Ok" THEN NotInstalled(r3)
    ELSE map_to_p2(create_next_table(r3.st, r3.next, p3_index(page),
                                     flags \cap {PRESENT, WRITABLE, USER_ACCESSIBLE}),
                   page, frame, flags)

\* OffsetPageTable::map_to for a 4 KiB page: walks (and creates) the
\* tables below the root and writes the level-1 entry.
map_to(st, root, page, frame, flags) ==
    map_to_p3(create_next_table(st, root, p4_index(page),
                                flags \cap {PRESENT, WRITABLE, USER_ACCESSIBLE}),
              page, frame, flags)

(***************************************************************************)
(* mapper.rs: map_region and map_region_zeroed                             *)
(*                                                                         *)
(* The mapping operators work on st = [phys, ram, alloc, drawn] and return *)
(* the state after the call, the value returned and `installs`, the        *)
(* level-1 entries written during the call, in order.                      *)
(***************************************************************************)
Identity == "Identity"

Allocate == "Allocate"

\* The checks both mapping functions run before they touch anything.
validate_mapping(virt_start, size, flags) ==
    LET va == validate_alignment(virt_start)
    IN  IF va.kind # "Ok" THEN va
        ELSE LET vr == validate_region(virt_start, size)
             IN  IF vr.kind # "Ok" THEN vr
                 ELSE LET vf == IF u64_lt(virt_start, USER_SPACE_END)
                                THEN validate_user_flags(flags)
                                ELSE validate_kernel_flags(flags)
                      IN  IF vf.kind # "Ok" THEN vf
                          ELSE IF PRESENT \notin flags THEN Err("InvalidFlags")
                               ELSE Ok(<< >>)

\* Variant of page_count that rounds down: size / Size4KiB::SIZE.
page_count_round_down(size, debug) ==
    [panic |-> FALSE, count |-> div_page_size(size)]

\* (size + Size4KiB::SIZE - 1) / Size4KiB::SIZE.  With overflow checks
\* (debug build) an overflowing step panics; without them it wraps.
page_count(size, debug) ==
    LET plus  == overflowing_add(size, <<0, 1, 0>>)
        minus == overflowing_sub(plus.value, <<0, 0, 1>>)
    IN  IF debug /\ (plus.overflow \/ minus.overflow)
        THEN [panic |-> TRUE, count |-> ZERO]
        ELSE [panic |-> FALSE, count |-> div_page_size(minus.value)]

\* start_page + i: the address of the i-th page, or a panic when the
\* address leaves the 64-bit range or is not canonical.
page_add(virt_start, i) ==
    LET sum == overflowing_add(<<virt_start[1], virt_start[2], 0>>, <<0, i, 0>>)
    IN  IF sum.overflow \/ ~is_canonical(sum.value)
        THEN Panic("attempt to add resulted in non-canonical virtual address")
        ELSE Ok(sum.value)

Installed(page, frame, flags, zero) ==
    [page |-> page, frame |-> frame, flags |-> flags, zero |-> zero]

\* The loop `for i in 0..page_count` of map_region, from iteration i on.
\* acc = [st, installs, ret]; rq = [root, start, count, flags, map_type].
RECURSIVE MapLoop(_, _, _)

\* the end of an iteration: m is what map_to returned
MapInstalled(acc, rq, i, page, frame, m) ==
    IF m.res # "Ok"
    THEN [acc EXCEPT !.st = m.st, !.ret = Err("MapFailed")]
    ELSE MapLoop([acc EXCEPT
                    !.st = m.st,
                    !.installs = Append(@, Installed(page, frame, rq.flags, m.zero))],
                 rq, i + 1)

\* MapType::Allocate: a is what allocate_frame returned
MapAllocated(acc, rq, i, page, a) ==
    IF a.ret.kind # "Some"
    THEN [acc EXCEPT !.st.alloc = a.self, !.st.refused = "data",
                     !.ret = Err("OutOfFrames")]
    ELSE MapInstalled(acc, rq, i, page, FromInt(a.ret.frame),
                      map_to([acc.st EXCEPT
                                !.alloc = a.self,
                                !.drawn = Append(@, [frame |-> FromInt(a.ret.frame),
                                                     use |-> "data"])],
                             rq.root, page, FromInt(a.ret.frame), rq.flags))

\* MapType::Identity: the frame at the address of the page
MapIdentity(acc, rq, i, page) ==
    IF ~is_phys_addr(page)
    THEN [acc EXCEPT !.ret = Panic("physical addresses must not have any bits in the range 52 to 64 set")]
    ELSE MapInstalled(acc, rq, i, page, page,
                      map_to(acc.st, rq.root, page, page, rq.flags))

\* one iteration: page is start_page + i
MapPage(acc, rq, i, page) ==
    IF page.kind # "Ok" THEN [acc EXCEPT !.ret = page]
    ELSE IF rq.map_type = Identity
         THEN MapIdentity(acc, rq, i, page.value)
         ELSE MapAllocated(acc, rq, i, page.value, allocate_frame(acc.st.alloc))

MapLoop(acc, rq, i) ==
    IF ~u64_lt(FromInt(i), rq.count) THEN [acc EXCEPT !.ret = Ok(<< >>)]
    ELSE MapPage(acc, rq, i, page_add(rq.start, i))

\* the outcome of a call that stops before its loop
NothingMapped(st, ret) == [st |-> st, installs |-> << >>, ret |-> ret]

\* map_region once the arguments are validated (v) and the pages counted (c)
map_validated(st, rq, v, c) ==
    IF v.kind # "Ok" THEN NothingMapped(st, v)
    ELSE IF c.panic
         THEN NothingMapped(st, Panic("attempt to add with overflow"))
         ELSE MapLoop(NothingMapped(st, v), [rq EXCEPT !.count = c.count], 0)

map_region(st, root, virt_start, size, flags, map_type, debug) ==
    map_validated(st,
                  [root |-> root, start |-> virt_start, count |-> ZERO,
                   flags |-> flags, map_type |-> map_type],
                  validate_mapping(virt_start, size, flags),
                  page_count(size, debug))

\* The loop `for i in 0..page_count` of map_region_zeroed.
RECURSIVE MapZeroedLoop(_, _, _)

\* the end of an iteration: m is what map_to returned
MapZeroedInstalled(acc, rq, i, page, frame, m) ==
    IF m.res # "Ok"
    THEN [acc EXCEPT !.st = m.st, !.ret = Err("MapFailed")]
    ELSE MapZeroedLoop([acc EXCEPT
                          !.st = m.st,
                          !.installs = Append(@, Installed(page, frame, rq.flags,
                                                           m.zero))],
                       rq, i + 1)

\* a is what allocate_frame returned: the frame is zeroed, then mapped
MapZeroedAllocated(acc, rq, i, page, a) ==
    IF a.ret.kind # "Some"
    THEN [acc EXCEPT !.st.alloc = a.self, !.st.refused = "data",
                     !.ret = Err("OutOfFrames")]
    ELSE MapZeroedInstalled(acc, rq, i, page, FromInt(a.ret.frame),
                            map_to([acc.st EXCEPT
                                      !.phys  = zero_frame(@, FromInt(a.ret.frame)),
                                      !.alloc = a.self,
                                      !.drawn = Append(@, [frame |-> FromInt(a.ret.frame),
                                                           use |-> "data"])],
                                   rq.root, page, FromInt(a.ret.frame), rq.flags))

\* one iteration: page is start_page + i
MapZeroedPage(acc, rq, i, page) ==
    IF page.kind # "Ok" THEN [acc EXCEPT !.ret = page]
    ELSE MapZeroedAllocated(acc, rq, i, page.value, allocate_frame(acc.st.alloc))

MapZeroedLoop(acc, rq, i) ==
    IF ~u64_lt(FromInt(i), rq.count) THEN [acc EXCEPT !.ret = Ok(<< >>)]
    ELSE MapZeroedPage(acc, rq, i, page_add(rq.start, i))

\* map_region_zeroed once the arguments are validated and the pages counted
map_zeroed_validated(st, rq, v, c) ==
    IF v.kind # "Ok" THEN NothingMapped(st, v)
    ELSE IF c.panic
         THEN NothingMapped(st, Panic("attempt to add with overflow"))
         ELSE MapZeroedLoop(NothingMapped(st, v), [rq EXCEPT !.count = c.count], 0)

map_region_zeroed(st, root, virt_start, size, flags, debug) ==
    map_zeroed_validated(st,
                         [root |-> root, start |-> virt_start, count |-> ZERO,
                          flags |-> flags],
                         validate_mapping(virt_start, size, flags),
                         page_count(size, debug))

(***************************************************************************)
(* address_space.rs: AddressSpace                                          *)
(***************************************************************************)
KERNEL == 0

\* Variant of AddressSpaceId::new that accepts every id.
AddressSpaceId_new_accept_zero(id) == Ok(id)

\* AddressSpaceId::new: assert!(id != 0)
AddressSpaceId_new(id) ==
    IF id = 0 THEN Panic("ID 0 is reserved for kernel address space")
    ELSE Ok(id)

\* AddressSpaceId::is_kernel
is_kernel(self) == self = 0

MemoryStats(mapped_pages, user_pages, kernel_pages) ==
    [mapped_pages |-> mapped_pages, user_pages |-> user_pages,
     kernel_pages |-> kernel_pages]

AddressSpace(id, pt_root, stats_) == [id |-> id, pt_root |-> pt_root, stats |-> stats_]

from_existing(id, root_frame) ==
    AddressSpace(id, root_frame, MemoryStats(ZERO, ZERO, ZERO))

is_active(self, cr3_) == cr3_ = self.pt_root

\* The value of the CR3 register: the frame of the root table and the flags
Cr3(frame, flags) == [frame |-> frame, flags |-> flags]

\* Variant of switch_to that writes CR3 with no flag set.
switch_to_clear_flags(self, reg) == Cr3(self.pt_root, {})

\* switch_to: Cr3::write(self.pt_root.frame(), flags) with the flags read
\* from CR3.  reg is the value of CR3 before the call.
switch_to(self, reg) == Cr3(self.pt_root, reg.flags)

\* the end of create: m is what map_region returned for the kernel range
create_mapped(id, root_frame, size, m) ==
    IF m.ret.kind # "Ok" THEN m
    ELSE [m EXCEPT !.ret =
            Ok(AddressSpace(id, root_frame,
                            MemoryStats(div_page_size(size), ZERO,
                                        div_page_size(size))))]

\* create once the root frame is drawn and zeroed (st): size is what
\* kernel_end - kernel_start gave
create_rooted(st, id, root_frame, kernel_start_, size, debug) ==
    IF ~is_canonical(kernel_start_)
    THEN NothingMapped(st, Panic("virtual address must be sign extended in bits 48 to 64"))
    ELSE IF debug /\ size.overflow
    THEN NothingMapped(st, Panic("attempt to subtract with overflow"))
    ELSE create_mapped(id, root_frame, size.value,
                       map_region(st, root_frame, kernel_start_, size.value,
                                  {PRESENT, WRITABLE, GLOBAL}, Identity, debug))

\* create from the allocation of the root frame on: a is what
\* allocate_frame returned
create_allocated(st, id, kernel_start_, kernel_end_, debug, a) ==
    IF a.ret.kind # "Some"
    THEN NothingMapped([st EXCEPT !.alloc = a.self, !.refused = "root"],
                       Err("OutOfFrames"))
    ELSE create_rooted([st EXCEPT
                          !.phys  = zero_frame(@, FromInt(a.ret.frame)),
                          !.alloc = a.self,
                          !.drawn = Append(@, [frame |-> FromInt(a.ret.frame),
                                               use |-> "root"])],
                       id, FromInt(a.ret.frame), kernel_start_,
                       overflowing_sub(kernel_end_, kernel_start_), debug)

\* AddressSpace::create.  The result carries the new AddressSpace when the
\* call succeeds.
create(st, id, kernel_start_, kernel_end_, debug) ==
    create_allocated(st, id, kernel_start_, kernel_end_, debug,
                     allocate_frame(st.alloc))

\* self.stats.<field> += page_count for the two fields a mapping call
\* updates; a panic when an addition overflows in a debug build.
add_pages(self, field, count, debug) ==
    LET m == overflowing_add(self.stats.mapped_pages, count)
        f == overflowing_add(self.stats[field], count)
    IN  IF debug /\ (m.overflow \/ f.overflow)
        THEN [panic |-> TRUE, self |-> self]
        ELSE [panic |-> FALSE,
              self  |-> [self EXCEPT !.stats =
                           [[@ EXCEPT !.mapped_pages = m.value]
                               EXCEPT ![field] = f.value]]]

\* what a mapping method of AddressSpace leaves: the outcome m of map_region
\* and the AddressSpace
Returned(m, self, ret) ==
    [st |-> m.st, installs |-> m.installs, self |-> self, ret |-> ret]

\* Variant of region_mapped that updates the statistics whatever map_region
\* returned.
region_mapped_count_always(self, m, s) ==
    IF s.panic THEN Returned(m, self, Panic("attempt to add with overflow"))
    ELSE Returned(m, s.self, m.ret)

\* the end of map_user_region and map_kernel_region: m is what map_region
\* returned (`?`), s the statistics with the pages added
region_mapped(self, m, s) ==
    IF m.ret.kind # "Ok" THEN Returned(m, self, m.ret)
    ELSE IF s.panic THEN Returned(m, self, Panic("attempt to add with overflow"))
         ELSE Returned(m, s.self, m.ret)

\* map_user_region once the pages are counted (c)
user_region_counted(st, self, start, size, debug, c) ==
    IF c.panic
    THEN Returned(NothingMapped(st, None), self, Panic("attempt to add with overflow"))
    ELSE region_mapped(self,
                       map_region(st, self.pt_root, start, size,
                                  {PRESENT, WRITABLE, USER_ACCESSIBLE},
                                  Allocate, debug),
                       add_pages(self, "user_pages", c.count, debug))

\* AddressSpace::map_user_region
map_user_region(st, self, start, size, debug) ==
    user_region_counted(st, self, start, size, debug, page_count(size, debug))

\* map_kernel_region once the pages are counted (c)
kernel_region_counted(st, self, start, size, debug, c) ==
    IF c.panic
    THEN Returned(NothingMapped(st, None), self, Panic("attempt to add with overflow"))
    ELSE region_mapped(self,
                       map_region(st, self.pt_root, start, size,
                                  {PRESENT, WRITABLE, GLOBAL},
                                  Identity, debug),
                       add_pages(self, "kernel_pages", c.count, debug))

\* AddressSpace::map_kernel_region
map_kernel_region(st, self, start, size, debug) ==
    kernel_region_counted(st, self, start, size, debug, page_count(size, debug))

\* Variant of destroy that refuses the kernel space only while it is active.
destroy_kernel_while_active(self, frame_allocator_, cr3_, debug) ==
    [self |-> frame_allocator_,
     ret  |-> IF self.id = KERNEL /\ is_active(self, cr3_)
              THEN Panic("Attempted to destroy kernel address space - this is forbidden")
              ELSE IF debug /\ is_active(self, cr3_)
              THEN Panic("Attempted to destroy active address space - switch away first")
              ELSE Ok(<< >>)]

\* AddressSpace::destroy.  The check of the active space is compiled under
\* cfg(debug_assertions); the frame allocator is left as it is.  Returns
\* the allocator after the call and the outcome.
destroy(self, frame_allocator_, cr3_, debug) ==
    [self |-> frame_allocator_,
     ret  |-> IF self.id = KERNEL
              THEN Panic("Attempted to destroy kernel address space - this is forbidden")
              ELSE IF debug /\ is_active(self, cr3_)
              THEN Panic("Attempted to destroy active address space - switch away first")
              ELSE Ok(<< >>)]

(***************************************************************************)
(* State                                                                   *)
(***************************************************************************)
\* memory_regions, kernel_start, kernel_end: the arguments new() was called
\*     with (the bootloader memory map and the kernel image bounds)
\* frame_allocator: the EarlyFrameAllocator (ranges, len, next, initial_total)
\* last: the last call, the value it returned, and the number of calls made;
\*     for a mapping call also its arguments, the level-1 entries it wrote,
\*     the frames it drew from the allocator and the use of the frame the
\*     allocator could not supply
\* returned: addresses of the frames handed out so far, in order
\* phys: the contents of the physical frames the kernel has written
\* ram: what the frames never written hold ("zero" or "stale")
\* spaces: the AddressSpace objects alive, the kernel space first
\* cr3: the frame of the active root table
\* cr3_flags: the flags held in CR3 beside the frame
\* debug_assertions: whether the build checks overflows and debug assertions
VARIABLES memory_regions, kernel_start, kernel_end, frame_allocator, last, returned, phys, ram, spaces, cr3, cr3_flags, debug_assertions

vars == <<memory_regions, kernel_start, kernel_end, frame_allocator, last, returned, phys, ram, spaces, cr3, cr3_flags, debug_assertions>>

reserved_end == Max(kernel_end, LOW_MEMORY_END)

\* The root table the bootloader left in CR3, and the tables below it: the
\* page 0x201000 is mapped and 0x400000..0x5FFFFF is one 2 MiB page.
BOOT_PML4 == <<0, 1, 0>>

BootTables ==
    [f \in {BOOT_PML4, <<0, 2, 0>>, <<0, 3, 0>>, <<0, 4, 0>>} |->
        IF f = BOOT_PML4
        THEN [i \in {0} |-> [frame |-> <<0, 2, 0>>,
                             flags |-> {PRESENT, WRITABLE, USER_ACCESSIBLE}]]
        ELSE IF f = <<0, 2, 0>>
        THEN [i \in {0} |-> [frame |-> <<0, 3, 0>>,
                             flags |-> {PRESENT, WRITABLE, USER_ACCESSIBLE}]]
        ELSE IF f = <<0, 3, 0>>
        THEN [i \in {1, 2} |->
                IF i = 1
                THEN [frame |-> <<0, 4, 0>>,
                      flags |-> {PRESENT, WRITABLE, USER_ACCESSIBLE}]
                ELSE [frame |-> <<0, 1024, 0>>,
                      flags |-> {PRESENT, WRITABLE, HUGE_PAGE}]]
        ELSE [i \in {1} |-> [frame |-> <<0, 513, 0>>,
                             flags |-> {PRESENT, WRITABLE, USER_ACCESSIBLE}]]]

\* paging::init: the allocator is built and the bootloader's root table is
\* wrapped as the kernel address space.
Booted ==
    /\ frame_allocator = new(memory_regions, kernel_start, kernel_end)
    /\ returned = << >>
    /\ phys = BootTables
    /\ spaces = <<from_existing(KERNEL, BOOT_PML4)>>
    /\ cr3 = BOOT_PML4

Init ==
    /\ memory_regions \in MemoryMaps
    /\ kernel_start \in KernelStarts
    /\ kernel_end \in KernelEnds
    /\ Booted
    /\ cr3_flags = {}
    /\ ram = "stale"
    /\ debug_assertions = TRUE
    /\ last = [op |-> "new", ret |-> None, calls |-> 0]

Record(op, r) ==
    /\ frame_allocator' = r.self
    /\ last' = [op |-> op, ret |-> r.ret, calls |-> last.calls + 1]
    /\ returned' = IF r.ret.kind = "Some"
                   THEN Append(returned, r.ret.frame) ELSE returned
    /\ UNCHANGED <<memory_regions, kernel_start, kernel_end, phys, ram, spaces,
                   cr3, cr3_flags, debug_assertions>>

AllocateFrame ==
    /\ last.calls < MaxCalls
    /\ Record("allocate_frame", allocate_frame(frame_allocator))

TryAllocate ==
    /\ last.calls < MaxCalls
    /\ Record("try_allocate", try_allocate(frame_allocator))

Next == AllocateFrame \/ TryAllocate

Spec == Init /\ [][Next]_vars

(***************************************************************************)
(* Validation: the pure checks of mapper.rs applied to chosen inputs       *)
(***************************************************************************)
\* Addresses are VirtAddr values, hence canonical:
\* 0x0, 0x1, 0x800, 0xFFF, 0x1000, 0x1001, 0x2000, 0x1FF000, 0x200000,
\* 0x7FFF_FFFF_E000, 0x7FFF_FFFF_F000, 0x7FFF_FFFF_FFFF,
\* 0xFFFF_8000_0000_0000, 0xFFFF_8000_0000_0800, 0xFFFF_FFFF_FFFF_FEFF,
\* 0xFFFF_FFFF_FFFF_F000, 0xFFFF_FFFF_FFFF_FFFF
Addresses ==
    { <<0, 0, 0>>, <<0, 0, 1>>, <<0, 0, 2048>>, <<0, 0, 4095>>, <<0, 1, 0>>,
      <<0, 1, 1>>, <<0, 2, 0>>, <<0, 511, 0>>, <<0, 512, 0>>,
      <<127, 268435454, 0>>, <<127, 268435455, 0>>, <<127, 268435455, 4095>>,
      KERNEL_SPACE_START, <<16777088, 0, 2048>>, <<16777215, 268435455, 3839>>,
      <<16777215, 268435455, 0>>, U64_MAX }

\* 0, 1, 0x1000, 0x1800, 0x2000, 0x7FFF_FFFF_F000, 0x8000_0000_0000,
\* 0xFFFF_FFFF_F000, 0x1_0000_0000_0000, 0xFFFF_8000_0000_0000,
\* 0xFFFF_FFFF_FFFF_F000, 0xFFFF_FFFF_FFFF_FFFF
Sizes ==
    { ZERO, <<0, 0, 1>>, <<0, 1, 0>>, <<0, 1, 2048>>, <<0, 2, 0>>,
      <<127, 268435455, 0>>, USER_SPACE_END, <<255, 268435455, 0>>,
      <<256, 0, 0>>, KERNEL_SPACE_START, <<16777215, 268435455, 0>>, U64_MAX }

ValidationInit ==
    /\ memory_regions = << >>
    /\ kernel_start = LOW_MEMORY_END
    /\ kernel_end = LOW_MEMORY_END
    /\ Booted
    /\ cr3_flags = {}
    /\ ram = "stale"
    /\ debug_assertions \in BOOLEAN
    /\ last = [op |-> "boot", ret |-> None, calls |-> 0]

Validated(op, args, ret) ==
    /\ last' = [op |-> op, args |-> args, ret |-> ret, calls |-> 1]
    /\ UNCHANGED <<memory_regions, kernel_start, kernel_end, frame_allocator,
                   returned, phys, ram, spaces, cr3, cr3_flags, debug_assertions>>

ValidateAlignment ==
    \E addr \in Addresses :
        Validated("validate_alignment", <<addr>>, validate_alignment(addr))

ValidateUserAddress ==
    \E addr \in Addresses :
        Validated("validate_user_address", <<addr>>, validate_user_address(addr))

ValidateRegion ==
    \E start \in Addresses, size \in Sizes :
        Validated("validate_region", <<start, size>>, validate_region(start, size))

ValidationNext == ValidateAlignment \/ ValidateUserAddress \/ ValidateRegion

ValidationSpec == ValidationInit /\ [][ValidationNext]_vars

(***************************************************************************)
(* Paging: address spaces and mappings on a booted machine                 *)
(***************************************************************************)
\* A memory map with eight free frames, one with a single free frame, and
\* two whose usable regions overlap: four free frames three of which are
\* retained twice, and three free frames the first of which is retained
\* twice.
PagingMaps ==
    { << Region(2097152, 2129920, "Usable") >>,
      << Region(2097152, 2101248, "Usable") >>,
      << Region(2101248, 2113536, "Usable"), Region(1048576, 2113536, "Usable") >>,
      << Region(2097152, 2101248, "Usable"), Region(1048576, 2109440, "Usable") >> }

AllFlags == SUBSET {PRESENT, WRITABLE, USER_ACCESSIBLE, GLOBAL}

UserFlags == {PRESENT, WRITABLE, USER_ACCESSIBLE}

KernelFlags == {PRESENT, WRITABLE}

\* 0x1FF000 (last page of a level-1 table), 0x400000 (inside the 2 MiB page
\* of the boot tables), 0x80_001F_F000 (below an unused level-4 entry)
UserStarts == { <<0, 511, 0>>, <<0, 1024, 0>>, <<0, 134218239, 0>> }

\* 0x1000, 0x1800, 0x2000, 0x3000
PageSizes == { <<0, 1, 0>>, <<0, 1, 2048>>, <<0, 2, 0>>, <<0, 3, 0>> }

\* Regions <<start, size>> of a few pages in either half, and regions the
\* validation has to turn down: misaligned, empty, straddling the boundary,
\* ending at the boundary or beyond bit 47, overflowing.
Regions ==
    ((UserStarts \cup {KERNEL_SPACE_START}) \X PageSizes)
    \cup { << <<0, 512, 2048>>, <<0, 1, 0>> >>,
           << <<0, 511, 0>>, ZERO >>,
           << KERNEL_SPACE_START, ZERO >>,
           << <<0, 511, 0>>, KERNEL_SPACE_START >>,
           << <<127, 268435455, 0>>, <<0, 1, 0>> >>,
           << <<0, 1, 0>>, <<255, 268435455, 0>> >>,
           << <<0, 511, 0>>, U64_MAX >>,
           << <<16777215, 268435455, 0>>, <<0, 1, 0>> >> }

\* <<start, size, flags>>: every region with the flags of its half, and one
\* region of each half with every flag set.
MapRequests ==
    { <<r[1], r[2], IF u64_lt(r[1], USER_SPACE_END) THEN UserFlags ELSE KernelFlags>>
        : r \in Regions }
    \cup { << <<0, 511, 0>>, <<0, 1, 0>>, f >> : f \in AllFlags }
    \cup { << KERNEL_SPACE_START, <<0, 1, 0>>, f >> : f \in AllFlags }

\* <<kernel_start, kernel_end>> given to create: [0x100000, 0x200000), an
\* empty range, a misaligned start, a reversed range, a range in the kernel
\* half, a range up to the kernel half, a start that is not canonical.
CreateRanges ==
    { << <<0, 256, 0>>, <<0, 512, 0>> >>,
      << <<0, 256, 0>>, <<0, 256, 0>> >>,
      << <<0, 256, 2048>>, <<0, 512, 0>> >>,
      << <<0, 512, 0>>, <<0, 256, 0>> >>,
      << KERNEL_SPACE_START, <<16777088, 1, 0>> >>,
      << <<0, 256, 0>>, <<16777088, 256, 0>> >>,
      << USER_SPACE_END, <<128, 1, 0>> >> }

CreateIds == {1, 2}

PagingInit ==
    /\ memory_regions \in PagingMaps
    /\ kernel_start = 1048576
    /\ kernel_end = 2097152
    /\ Booted
    /\ cr3_flags = {}
    /\ ram \in {"zero", "stale"}
    /\ debug_assertions \in BOOLEAN
    /\ last = [op |-> "init", args |-> << >>, ret |-> None, calls |-> 0,
               installs |-> << >>, drawn |-> << >>, refused |-> "none"]

\* the state a call works on
Machine ==
    [phys |-> phys, ram |-> ram, alloc |-> frame_allocator, drawn |-> << >>,
     refused |-> "none"]

ToInt(frame) == frame[2] * PAGE_SIZE + frame[3]

\* A call may be made while the kernel has not panicked.
Running == last.calls < MaxMapCalls /\ last.ret.kind # "Panic"

Applied(op, args, r, spaces_) ==
    /\ frame_allocator' = r.st.alloc
    /\ phys' = r.st.phys
    /\ spaces' = spaces_
    /\ last' = [op |-> op, args |-> args, ret |-> r.ret,
                calls |-> last.calls + 1, installs |-> r.installs,
                drawn |-> r.st.drawn, refused |-> r.st.refused]
    /\ returned' = returned \o [i \in 1..Len(r.st.drawn) |-> ToInt(r.st.drawn[i].frame)]
    /\ UNCHANGED <<memory_regions, kernel_start, kernel_end, ram, cr3,
                   cr3_flags, debug_assertions>>

Create ==
    /\ Running
    /\ \E id \in CreateIds, k \in CreateRanges :
          /\ \A s \in 1..Len(spaces) : spaces[s].id # id
          /\ LET r == create(Machine, id, k[1], k[2], debug_assertions)
             IN  Applied("create", <<id, k[1], k[2]>>, r,
                         IF r.ret.kind = "Ok" THEN Append(spaces, r.ret.value)
                         ELSE spaces)

MapRegion ==
    /\ Running
    /\ \E s \in 1..Len(spaces), rq \in MapRequests, map_type \in {Identity, Allocate} :
          Applied("map_region", <<s, rq[1], rq[2], rq[3], map_type>>,
                  map_region(Machine, spaces[s].pt_root, rq[1], rq[2], rq[3],
                             map_type, debug_assertions),
                  spaces)

MapRegionZeroed ==
    /\ Running
    /\ \E s \in 1..Len(spaces), rq \in MapRequests :
          Applied("map_region_zeroed", <<s, rq[1], rq[2], rq[3], Allocate>>,
                  map_region_zeroed(Machine, spaces[s].pt_root, rq[1], rq[2],
                                    rq[3], debug_assertions),
                  spaces)

MapUserRegion ==
    /\ Running
    /\ \E s \in 1..Len(spaces), rg \in Regions :
          LET r == map_user_region(Machine, spaces[s], rg[1], rg[2],
                                   debug_assertions)
          IN  Applied("map_user_region", <<s, rg[1], rg[2], UserFlags, Allocate>>,
                      r, [spaces EXCEPT ![s] = r.self])

MapKernelRegion ==
    /\ Running
    /\ \E s \in 1..Len(spaces), rg \in Regions :
          LET r == map_kernel_region(Machine, spaces[s], rg[1], rg[2],
                                     debug_assertions)
          IN  Applied("map_kernel_region",
                      <<s, rg[1], rg[2], {PRESENT, WRITABLE, GLOBAL}, Identity>>,
                      r, [spaces EXCEPT ![s] = r.self])

PagingNext ==
    Create \/ MapRegion \/ MapRegionZeroed \/ MapUserRegion \/ MapKernelRegion

PagingSpec == PagingInit /\ [][PagingNext]_vars

(***************************************************************************)
(* Lifecycle: address spaces wrapped, switched to, mapped into, destroyed  *)
(***************************************************************************)
\* A memory map with twelve free frames, and one whose usable regions
\* overlap: three free frames the first of which is retained twice.
LifeMaps ==
    { << Region(2097152, 2146304, "Usable") >>,
      << Region(2097152, 2101248, "Usable"), Region(1048576, 2109440, "Usable") >> }

\* The flags CR3 may hold at boot
Cr3FlagSets == { {}, {"PAGE_LEVEL_CACHE_DISABLE"} }

\* ids given to AddressSpaceId::new: 0, 1, 2, 100
Ids == {0, 1, 2, 100}

\* <<id, root frame>> of the user spaces wrapped by from_existing: the
\* frames 0x5000 and 0x6000, which hold empty root tables
UserSpaces == { <<1, <<0, 5, 0>>>>, <<2, <<0, 6, 0>>>> }

\* <<start, size>>: two regions of three pages next to each other, 0x202000
\* and 0x205000, the second one also with a size that is not a multiple of
\* the page size (0x2800), a start in the kernel half and an empty region.
LifeRegions ==
    { << <<0, 514, 0>>, <<0, 3, 0>> >>,
      << <<0, 517, 0>>, <<0, 3, 0>> >>,
      << <<0, 517, 0>>, <<0, 2, 2048>> >>,
      << KERNEL_SPACE_START, <<0, 1, 0>> >>,
      << <<0, 514, 0>>, ZERO >> }

LifecycleInit ==
    /\ memory_regions \in LifeMaps
    /\ kernel_start = 1048576
    /\ kernel_end = 2097152
    /\ Booted
    /\ cr3_flags \in Cr3FlagSets
    /\ ram = "zero"
    /\ debug_assertions \in BOOLEAN
    /\ last = [op |-> "init", args |-> << >>, ret |-> None, calls |-> 0,
               installs |-> << >>, drawn |-> << >>, refused |-> "none"]

LifeRunning == last.calls < MaxLifeCalls /\ last.ret.kind # "Panic"

\* a call that maps nothing and draws no frame
Called(op, args, ret) ==
    last' = [op |-> op, args |-> args, ret |-> ret, calls |-> last.calls + 1,
             installs |-> << >>, drawn |-> << >>, refused |-> "none"]

Remove(seq, s) == SubSeq(seq, 1, s - 1) \o SubSeq(seq, s + 1, Len(seq))

NewId ==
    /\ LifeRunning
    /\ \E id \in Ids : Called("AddressSpaceId::new", <<id>>, AddressSpaceId_new(id))
    /\ UNCHANGED <<memory_regions, kernel_start, kernel_end, frame_allocator,
                   returned, phys, ram, spaces, cr3, cr3_flags, debug_assertions>>

\* from_existing on a root frame no live AddressSpace uses, with an id made
\* by AddressSpaceId::new that no live AddressSpace has
FromExisting ==
    /\ LifeRunning
    /\ \E u \in UserSpaces :
          /\ AddressSpaceId_new(u[1]).kind = "Ok"
          /\ \A s \in 1..Len(spaces) :
                spaces[s].id # u[1] /\ spaces[s].pt_root # u[2]
          /\ spaces' = Append(spaces,
                              from_existing(AddressSpaceId_new(u[1]).value, u[2]))
          /\ Called("from_existing", <<u[1], u[2]>>, Ok(<< >>))
    /\ UNCHANGED <<memory_regions, kernel_start, kernel_end, frame_allocator,
                   returned, phys, ram, cr3, cr3_flags, debug_assertions>>

SwitchTo ==
    /\ LifeRunning
    /\ \E s \in 1..Len(spaces) :
          /\ cr3' = switch_to(spaces[s], Cr3(cr3, cr3_flags)).frame
          /\ cr3_flags' = switch_to(spaces[s], Cr3(cr3, cr3_flags)).flags
          /\ Called("switch_to", <<spaces[s]>>, Ok(<< >>))
    /\ UNCHANGED <<memory_regions, kernel_start, kernel_end, frame_allocator,
                   returned, phys, ram, spaces, debug_assertions>>

\* destroy consumes the AddressSpace: when it returns, the object is gone
Destroy ==
    /\ LifeRunning
    /\ \E s \in 1..Len(spaces) :
          LET r == destroy(spaces[s], frame_allocator, cr3, debug_assertions)
          IN  /\ frame_allocator' = r.self
              /\ spaces' = IF r.ret.kind = "Ok" THEN Remove(spaces, s) ELSE spaces
              /\ Called("destroy", <<spaces[s]>>, r.ret)
    /\ UNCHANGED <<memory_regions, kernel_start, kernel_end, returned, phys, ram,
                   cr3, cr3_flags, debug_assertions>>

LifeCreate ==
    /\ LifeRunning
    /\ \E id \in CreateIds :
          /\ \A s \in 1..Len(spaces) : spaces[s].id # id
          /\ LET r == create(Machine, id, <<0, 256, 0>>, <<0, 512, 0>>,
                             debug_assertions)
             IN  Applied("create", <<id, <<0, 256, 0>>, <<0, 512, 0>>>>, r,
                         IF r.ret.kind = "Ok" THEN Append(spaces, r.ret.value)
                         ELSE spaces)

LifeMapUserRegion ==
    /\ LifeRunning
    /\ \E s \in 1..Len(spaces), rg \in LifeRegions :
          LET r == map_user_region(Machine, spaces[s], rg[1], rg[2],
                                   debug_assertions)
          IN  Applied("map_user_region", <<s, rg[1], rg[2], UserFlags, Allocate>>,
                      r, [spaces EXCEPT ![s] = r.self])

LifeMapKernelRegion ==
    /\ LifeRunning
    /\ \E s \in 1..Len(spaces), rg \in LifeRegions :
          LET r == map_kernel_region(Machine, spaces[s], rg[1], rg[2],
                                     debug_assertions)
          IN  Applied("map_kernel_region",
                      <<s, rg[1], rg[2], {PRESENT, WRITABLE, GLOBAL}, Identity>>,
                      r, [spaces EXCEPT ![s] = r.self])

LifecycleNext ==
    \/ NewId \/ FromExisting \/ SwitchTo \/ Destroy
    \/ LifeCreate \/ LifeMapUserRegion \/ LifeMapKernelRegion

LifecycleSpec == LifecycleInit /\ [][LifecycleNext]_vars

(***************************************************************************)
(* Helpers of the properties                                               *)
(***************************************************************************)
RangeStart(i) == frame_allocator.ranges[i][1]

RangeEnd(i) == frame_allocator.ranges[i][2]

Retained == 1..frame_allocator.len

HasFreeFrame(self) == \E i \in 1..self.len : self.ranges[i][1] < self.ranges[i][2]

UsableRegions == { k \in 1..Len(memory_regions) : memory_regions[k].kind = "Usable" }

Min(a, b) == IF a <= b THEN a ELSE b

(***************************************************************************)
(* Properties                                                              *)
(***************************************************************************)

\* C1: any two successful allocate_frame() calls on one allocator return
\* different physical addresses, whatever memory map and kernel_end the
\* allocator was built from.
C1_NeverSameFrameTwice ==
    \A a, b \in 1..Len(returned) : a # b => returned[a] # returned[b]

\* C2: the 4096-byte extent of every returned frame contains no address
\* below max(kernel_end, 0x100000) and lies inside a Usable input region,
\* for page-aligned and unaligned kernel_end alike.
C2_FrameInsideRetainedRange ==
    \A k \in 1..Len(returned) :
        /\ returned[k] >= Max(kernel_end, 1048576)
        /\ \E r \in UsableRegions :
              /\ memory_regions[r].start <= returned[k]
              /\ returned[k] + 4096 <= memory_regions[r].end

\* C3: every address returned by a successful allocate_frame() is a
\* multiple of 4096.
C3_ReturnedPageAligned ==
    \A k \in 1..Len(returned) : returned[k] % 4096 = 0

\* A frame has been handed out of a range whose start is not page-aligned.
C3_Witness ==
    /\ Len(returned) > 0
    /\ last.ret.kind = "Some"
    /\ RangeStart(frame_allocator.next + 1) % 4096 # 0

\* C4: every retained range starts at or above max(kernel_end, 0x100000)
\* and lies inside a Usable input region; non-usable regions and regions
\* that end at or below the reserved end contribute no range.
C4_RetainedFromUsableAboveReserved ==
    LET Qualifying == { r \in UsableRegions :
                          memory_regions[r].end > Max(kernel_end, 1048576) }
    IN  /\ \A i \in Retained :
              /\ RangeStart(i) >= Max(kernel_end, 1048576)
              /\ \E r \in Qualifying :
                    /\ memory_regions[r].start <= RangeStart(i)
                    /\ RangeEnd(i) <= memory_regions[r].end
        /\ frame_allocator.len <= Cardinality(Qualifying)

\* Just after construction from a map with a non-usable region, a usable
\* region below the reserved end and a usable region trimmed to it.
C4_Witness ==
    /\ last.calls = 0
    /\ \E k \in 1..Len(memory_regions) : memory_regions[k].kind # "Usable"
    /\ \E r \in UsableRegions : memory_regions[r].end <= reserved_end
    /\ \E i \in Retained : \E r \in UsableRegions :
          /\ RangeStart(i) = reserved_end
          /\ memory_regions[r].start < reserved_end
          /\ RangeEnd(i) = align_down(memory_regions[r].end, 4096)

\* C5: both bounds of every retained range are multiples of 4096, at
\* construction and after any sequence of allocate_frame() calls.
C5_RangeBoundsAligned ==
    \A i \in Retained : RangeStart(i) % 4096 = 0 /\ RangeEnd(i) % 4096 = 0

\* C6: in every reachable state any two distinct retained ranges are
\* disjoint.
C6_RangesDisjoint ==
    \A i, j \in Retained :
        i # j => Max(RangeStart(i), RangeStart(j)) >= Min(RangeEnd(i), RangeEnd(j))

\* C7: after k successful allocate_frame() calls stats() reports
\* allocated_bytes = 4096*k and available_bytes = total_bytes - 4096*k,
\* with total_bytes equal to its value at construction.
C7_CountersNeverDrift ==
    LET k == Len(returned)
        s == stats(frame_allocator)
    IN  /\ s.total_bytes = new(memory_regions, kernel_start, kernel_end).initial_total
        /\ s.allocated_bytes = 4096 * k
        /\ s.available_bytes = s.total_bytes - 4096 * k
        /\ s.allocated_bytes + s.available_bytes = s.total_bytes

\* C8: when no retained range has a free frame (including an allocator
\* with zero ranges) a call returns the 'no frame' result and leaves the
\* allocator unchanged; when some retained range has start < end the call
\* returns a frame.
C8_ExhaustionIsAnError ==
    [][ /\ ~HasFreeFrame(frame_allocator) =>
              /\ frame_allocator' = frame_allocator
              /\ returned' = returned
              /\ last'.op = "allocate_frame" => last'.ret = None
              /\ last'.op = "try_allocate" => last'.ret = Err("OutOfMemory")
        /\ HasFreeFrame(frame_allocator) => last'.ret.kind = "Some"
      ]_vars

\* An allocator that handed out frames and then failed twice in a row.
C8_Witness ==
    /\ Len(returned) > 0
    /\ last.ret.kind = "None"
    /\ last.calls >= Len(returned) + 2
    /\ ~HasFreeFrame(frame_allocator)

C10_Scenario ==
    ( /\ memory_regions = << Region(0, 655359, "Usable"),
                             Region(655359, 1048576, "Reserved"),
                             Region(1048576, 536870912, "Usable") >>
      /\ kernel_start = 1048576
      /\ kernel_end = 2097152 )
    => /\ frame_allocator.len = 1
       /\ RangeEnd(1) = 536870912
       /\ RangeStart(1) = 2097152 + 4096 * Len(returned)
       /\ Len(returned) >= 1 => returned[1] = 2097152
       /\ Len(returned) >= 2 => returned[2] = 2101248

\* The scenario's allocator after its second allocate_frame().
C10_Witness ==
    /\ memory_regions = << Region(0, 655359, "Usable"),
                           Region(655359, 1048576, "Reserved"),
                           Region(1048576, 536870912, "Usable") >>
    /\ kernel_start = 1048576
    /\ kernel_end = 2097152
    /\ Len(returned) = 2
    /\ last.op = "allocate_frame"

(***************************************************************************)
(* Properties of the validation functions (ValidationSpec)                 *)
(***************************************************************************)

\* C11: validate_alignment(addr) fails with Misaligned, carrying addr and
\* required = 4096, for every addr that is not a multiple of 4096, and
\* succeeds for every addr that is.
C11_AlignmentChecked ==
    last.op = "validate_alignment" =>
        LET addr == last.args[1]
        IN  IF addr[3] % PAGE_SIZE # 0
            THEN last.ret = [kind |-> "Err", error |-> "Misaligned",
                             addr |-> addr, required |-> 4096]
            ELSE last.ret.kind = "Ok"

C11_Witness ==
    /\ last.op = "validate_alignment"
    /\ last.args[1] = <<0, 0, 2048>>
    /\ last.ret.kind = "Err"

\* C12: validate_region(start, size) returns SizeTooSmall when size = 0;
\* otherwise SizeOverflow when start + size exceeds the 64-bit range;
\* otherwise InvalidRange exactly when start < 0x0000_8000_0000_0000 <
\* start + size; otherwise it succeeds with (start, start + size), so that a
\* region ending exactly at the boundary is accepted.
C12_RegionValidated ==
    last.op = "validate_region" =>
        LET start == last.args[1]
            size  == last.args[2]
            sum   == overflowing_add(start, size)
        IN  IF size = ZERO
            THEN last.ret.kind = "Err" /\ last.ret.error = "SizeTooSmall"
            ELSE IF sum.overflow
            THEN last.ret.kind = "Err" /\ last.ret.error = "SizeOverflow"
            ELSE IF u64_lt(start, USER_SPACE_END) /\ u64_lt(USER_SPACE_END, sum.value)
            THEN last.ret.kind = "Err" /\ last.ret.error = "InvalidRange"
            ELSE last.ret = Ok(<<start, sum.value>>)


(***************************************************************************)
(* Properties of the mappings (PagingSpec)                                 *)
(***************************************************************************)
\* The arguments of the last mapping call
ArgSpace(l) == l.args[1]

ArgStart(l) == l.args[2]

ArgSize(l) == l.args[3]

ArgFlags(l) == l.args[4]

ArgMode(l) == l.args[5]

MappingOps == {"map_region", "map_region_zeroed", "map_user_region", "map_kernel_region"}

ValidationErrors ==
    {"Misaligned", "SizeTooSmall", "SizeOverflow", "InvalidRange", "InvalidFlags"}

Failed(l, errors) == l.ret.kind = "Err" /\ l.ret.error \in errors

\* C13: map_region and map_region_zeroed reject flags with InvalidFlags
\* exactly when the region is user-destined and the flags lack
\* user-accessible or carry global, or the region is kernel-destined and the
\* flags carry user-accessible, or the flags lack present; every other flag
\* set passes flag validation (the flags are looked at once the address and
\* the region have passed their checks).
C13_FlagsValidated ==
    last.op \in {"map_region", "map_region_zeroed"} =>
        LET flags == ArgFlags(last)
            user  == u64_lt(ArgStart(last), USER_SPACE_END)
            bad   == \/ user /\ (USER_ACCESSIBLE \notin flags \/ GLOBAL \in flags)
                     \/ ~user /\ USER_ACCESSIBLE \in flags
                     \/ PRESENT \notin flags
            checked == /\ validate_alignment(ArgStart(last)).kind = "Ok"
                       /\ validate_region(ArgStart(last), ArgSize(last)).kind = "Ok"
        IN  /\ checked => (Failed(last, {"InvalidFlags"}) <=> bad)
            /\ Failed(last, {"InvalidFlags"}) => (checked /\ bad)

C13_Witness ==
    /\ last.op = "map_region_zeroed"
    /\ ArgStart(last) = <<0, 511, 0>>
    /\ ArgFlags(last) = {PRESENT, WRITABLE, USER_ACCESSIBLE, GLOBAL}
    /\ Failed(last, {"InvalidFlags"})

\* C14: when map_region, map_region_zeroed, map_user_region or
\* map_kernel_region fails an input validation (Misaligned, SizeTooSmall,
\* SizeOverflow, InvalidRange, InvalidFlags), no frame has been drawn from
\* the frame source, no translation has been installed and the address
\* space's MemoryStats are unchanged.
C14_ValidationFailureMutatesNothing ==
    [][ (last'.op \in MappingOps /\ Failed(last', ValidationErrors)) =>
            /\ frame_allocator' = frame_allocator
            /\ returned' = returned
            /\ last'.drawn = << >>
            /\ phys' = phys
            /\ last'.installs = << >>
            /\ spaces' = spaces ]_vars

C14_Witness ==
    /\ last.op = "map_user_region"
    /\ Failed(last, {"InvalidRange"})
    /\ spaces[1].stats = MemoryStats(ZERO, ZERO, ZERO)
    /\ returned = << >>


\* The translation the MMU finds for a page below a root table: the frame
\* and the flags of its level-1 entry (or of the 2 MiB entry that covers
\* it), None when an entry on the way is not present.
translate(st, root, page) ==
    LET t4 == frame_contents(st, root)
        i4 == p4_index(page)
        i3 == p3_index(page)
        i2 == p2_index(page)
        i1 == p1_index(page)
        present(t, i) == i \in DOMAIN t /\ PRESENT \in t[i].flags
    IN  IF ~present(t4, i4) THEN None
        ELSE LET t3 == frame_contents(st, t4[i4].frame)
             IN  IF ~present(t3, i3) THEN None
                 ELSE LET t2 == frame_contents(st, t3[i3].frame)
                      IN  IF ~present(t2, i2) THEN None
                          ELSE IF HUGE_PAGE \in t2[i2].flags
                          THEN [kind  |-> "Some",
                                frame |-> overflowing_add(t2[i2].frame,
                                                          <<0, i1, 0>>).value,
                                flags |-> t2[i2].flags]
                          ELSE LET t1 == frame_contents(st, t2[i2].frame)
                               IN  IF ~present(t1, i1) THEN None
                                   ELSE [kind  |-> "Some",
                                         frame |-> t1[i1].frame,
                                         flags |-> t1[i1].flags]

Memory == [phys |-> phys, ram |-> ram]

MemoryAfter == [phys |-> phys', ram |-> ram']

\* ceil(size / 4096) for the sizes below 2^40
PagesOf(size) == size[2] + (IF size[3] > 0 THEN 1 ELSE 0)

\* the address of the i-th page from start (i may be negative)
PageAt(start, i) == <<start[1], start[2] + i, 0>>

\* pages whose translation is observed: those around the regions mapped and
\* the page the boot tables map
ObservedPages ==
    { PageAt(start, i) : start \in UserStarts \cup {<<16777088, 1, 0>>}, i \in -1..4 }

DataFrames(l) == SelectSeq(l.drawn, LAMBDA d : d.use = "data")

RootOf(l) == spaces[ArgSpace(l)].pt_root

Mapped(frame, flags) == [kind |-> "Some", frame |-> frame, flags |-> flags]

\* The page has the translation it had before the step: no entry was
\* installed or removed for it (a failed walk may still have added flags to
\* the 2 MiB entry above it).
Untouched(root, page) ==
    LET before == translate(Memory, root, page)
        after  == translate(MemoryAfter, root, page)
    IN  /\ after.kind = before.kind
        /\ after.kind = "Some" => after.frame = before.frame

\* C15: a successful map_region(start, size, flags, mode) installs a
\* translation with exactly the given flags for each of the ceil(size/4096)
\* consecutive pages from start and for no other page; in Identity mode page
\* N maps to the frame at the same address and no data frame is drawn, in
\* Allocate mode the i-th page maps to the i-th data frame drawn during the
\* call.
C15_SuccessInstallsTheRegion ==
    [][ (last'.op = "map_region" /\ last'.ret.kind = "Ok") =>
            LET l     == last'
                n     == PagesOf(ArgSize(l))
                data  == DataFrames(l)
                pages == { PageAt(ArgStart(l), i) : i \in 0..(n - 1) }
            IN  /\ Len(data) = IF ArgMode(l) = Identity THEN 0 ELSE n
                /\ \A i \in 0..(n - 1) :
                      translate(MemoryAfter, RootOf(l), PageAt(ArgStart(l), i))
                        = Mapped(IF ArgMode(l) = Identity
                                 THEN PageAt(ArgStart(l), i)
                                 ELSE data[i + 1].frame,
                                 ArgFlags(l))
                /\ \A p \in ObservedPages \ pages : Untouched(RootOf(l), p) ]_vars

\* C16: if installing page j of a multi-page map_region fails, the call
\* stops at page j and returns MapFailed; the pages 0..j-1 installed earlier
\* in the call remain mapped to the frames they were given and the pages
\* after j are not touched.
C16_NoRollback ==
    [][ (last'.op = "map_region" /\ Failed(last', {"MapFailed"})) =>
            LET l == last'
                n == PagesOf(ArgSize(l))
                j == Len(l.installs)
                data == DataFrames(l)
            IN  /\ j < n
                /\ Len(data) = IF ArgMode(l) = Identity THEN 0 ELSE j + 1
                /\ \A i \in 0..(j - 1) :
                      translate(MemoryAfter, RootOf(l), PageAt(ArgStart(l), i))
                        = Mapped(IF ArgMode(l) = Identity
                                 THEN PageAt(ArgStart(l), i)
                                 ELSE data[i + 1].frame,
                                 ArgFlags(l))
                /\ \A i \in (j + 1)..(n - 1) :
                      Untouched(RootOf(l), PageAt(ArgStart(l), i)) ]_vars

C16_Witness ==
    /\ last.op = "map_region"
    /\ Failed(last, {"MapFailed"})
    /\ ArgSize(last) = <<0, 3, 0>>
    /\ Len(last.installs) = 2
    /\ translate(Memory, RootOf(last), ArgStart(last))
         = Mapped(last.installs[1].frame, ArgFlags(last))

\* C17: in map_region_zeroed every data frame drawn from the frame source is
\* zero-filled before its translation is installed: at the moment a page is
\* installed its target frame reads as all zeros through the physical-offset
\* accessor.
C17_ZeroedWhenInstalled ==
    last.op = "map_region_zeroed" =>
        \A i \in 1..Len(last.installs) : last.installs[i].zero


\* The arguments of the last create call
ArgKernelStart(l) == l.args[2]

ArgKernelEnd(l) == l.args[3]

\* C18: AddressSpace::create with a page-aligned kernel range
\* [kernel_start, kernel_end) and enough free frames succeeds and returns a
\* space whose stats have kernel_pages = (kernel_end - kernel_start)/4096
\* and user_pages = 0; for [0x100000, 0x200000) that is kernel_pages = 256.
C18_CreateSucceeds ==
    ( /\ last.op = "create"
      /\ last.calls = 1
      /\ is_aligned(ArgKernelStart(last)) /\ is_aligned(ArgKernelEnd(last))
      /\ u64_lt(ArgKernelStart(last), ArgKernelEnd(last))
      /\ ArgKernelEnd(last)[1] = 0 )
    => /\ last.ret.kind = "Ok"
       /\ last.ret.value.stats.kernel_pages
            = <<0, 0, ArgKernelEnd(last)[2] - ArgKernelStart(last)[2]>>
       /\ last.ret.value.stats.user_pages = ZERO

\* C19: AddressSpace::create fails only with OutOfFrames or MapFailed: for
\* every id, kernel_start, kernel_end and allocator state its result is a
\* new address space, OutOfFrames or MapFailed.
C19_CreateErrors ==
    last.op = "create" =>
        last.ret.kind = "Ok" \/ Failed(last, {"OutOfFrames", "MapFailed"})


\* create returns no address space: a kernel range below the boundary is
\* turned down by the flag validation of user-destined regions, and one in
\* the kernel half panics in PhysAddr::new.
CreateReturnsNoSpace == last.op = "create" => last.ret.kind # "Ok"

(***************************************************************************)
(* Properties of the address spaces (LifecycleSpec, PagingSpec)            *)
(***************************************************************************)
\* C21: a successful map_user_region(start, size) raises stats.user_pages
\* and stats.mapped_pages by exactly ceil(size/4096) and leaves kernel_pages
\* unchanged; a successful map_kernel_region raises kernel_pages and
\* mapped_pages by that number and leaves user_pages unchanged; a failed
\* call changes no counter of any space.  Two successful map_user_region
\* calls on non-overlapping 3-page regions thus raise user_pages by 3 each.
C21_StatsCountMappedPages ==
    [][ last'.op \in {"map_user_region", "map_kernel_region"} =>
            LET l      == last'
                n      == PagesOf(ArgSize(l))
                before == spaces[ArgSpace(l)].stats
                after  == spaces'[ArgSpace(l)].stats
                user   == IF l.op = "map_user_region" THEN n ELSE 0
                kernel == IF l.op = "map_kernel_region" THEN n ELSE 0
            IN  IF l.ret.kind = "Ok"
                THEN /\ ToInt(after.mapped_pages) = ToInt(before.mapped_pages) + n
                     /\ ToInt(after.user_pages) = ToInt(before.user_pages) + user
                     /\ ToInt(after.kernel_pages) = ToInt(before.kernel_pages) + kernel
                     /\ \A s \in 1..Len(spaces) :
                           s # ArgSpace(l) => spaces'[s] = spaces[s]
                ELSE spaces' = spaces ]_vars

C21_Witness ==
    /\ last.op = "map_user_region"
    /\ last.ret.kind = "Ok"
    /\ last.calls = 2
    /\ ArgStart(last) = <<0, 517, 0>>
    /\ ArgSize(last) = <<0, 2, 2048>>
    /\ spaces[ArgSpace(last)].stats = MemoryStats(<<0, 0, 6>>, <<0, 0, 6>>, ZERO)

\* C22: map_user_region called with a start address in kernel space (at or
\* above USER_SPACE_END) fails with KernelAddressInUserSpace carrying that
\* address, and maps nothing.
C22_KernelStartRefused ==
    (last.op = "map_user_region" /\ ~u64_lt(ArgStart(last), USER_SPACE_END)) =>
        /\ last.ret = KernelAddressInUserSpace(ArgStart(last))
        /\ last.installs = << >>
        /\ last.drawn = << >>

\* The AddressSpace the last switch_to or destroy was called on
ArgSelf(l) == l.args[1]

\* C23: destroy() on an AddressSpace whose id is the kernel id (0) aborts,
\* whether or not that space is the active one.
C23_KernelNeverDestroyed ==
    (last.op = "destroy" /\ is_kernel(ArgSelf(last).id)) =>
        /\ last.ret.kind = "Panic"
        /\ \E s \in 1..Len(spaces) : spaces[s] = ArgSelf(last)

C23_Witness ==
    /\ last.op = "destroy"
    /\ ArgSelf(last).id = KERNEL
    /\ ~is_active(ArgSelf(last), cr3)
    /\ last.ret.kind = "Panic"

\* C24: destroy() on a space whose root frame is the frame loaded in CR3
\* aborts in every build configuration, so that CR3 never holds the root
\* frame of an address space that was destroyed.
C24_ActiveNeverDestroyed ==
    (last.op = "destroy" /\ is_active(ArgSelf(last), cr3)) =>
        last.ret.kind = "Panic"

\* C25: destroy() on a non-kernel, non-active address space reclaims its
\* root frame: the available memory of the frame source grows by one frame
\* (4096 bytes).
C25_DestroyReclaimsRoot ==
    [][ ( /\ last'.op = "destroy"
          /\ ~is_kernel(ArgSelf(last').id)
          /\ ~is_active(ArgSelf(last'), cr3) )
        => available_memory(frame_allocator')
             = available_memory(frame_allocator) + PAGE_SIZE ]_vars

\* C26: is_active() is true exactly when the root frame of the space is the
\* frame in CR3; right after s.switch_to() CR3 holds the root frame of s
\* with the flags it held before, s.is_active() is true and every address
\* space with another root frame reports is_active() = false.
C26_SwitchActivates ==
    [][ last'.op = "switch_to" =>
            LET s == ArgSelf(last')
            IN  /\ cr3' = s.pt_root
                /\ cr3_flags' = cr3_flags
                /\ is_active(s, cr3')
                /\ \A t \in 1..Len(spaces') :
                      is_active(spaces'[t], cr3') <=> spaces'[t].pt_root = s.pt_root ]_vars

C26_Witness ==
    /\ last.op = "switch_to"
    /\ ArgSelf(last).pt_root = <<0, 5, 0>>
    /\ cr3 = <<0, 5, 0>>
    /\ cr3_flags = {"PAGE_LEVEL_CACHE_DISABLE"}
    /\ Len(spaces) = 2
    /\ ~is_active(spaces[1], cr3)
    /\ is_active(spaces[2], cr3)

\* C27: AddressSpaceId::new(id) aborts exactly when id = 0 and otherwise
\* returns an identifier for which is_kernel() is false; is_kernel() is true
\* exactly for the value 0, the KERNEL constant.
C27_IdZeroReserved ==
    last.op = "AddressSpaceId::new" =>
        LET id == last.args[1]
        IN  /\ last.ret.kind = "Panic" <=> id = 0
            /\ id # 0 => (last.ret = Ok(id) /\ ~is_kernel(last.ret.value))
            /\ is_kernel(KERNEL)
            /\ \A i \in Ids : is_kernel(i) <=> i = 0

C27_Witness ==
    /\ last.op = "AddressSpaceId::new"
    /\ last.args[1] = 0
    /\ last.ret.kind = "Panic"

\* the pages of the regions mapped in LifecycleSpec: 0x202000 .. 0x207000
LifePages == { PageAt(<<0, 514, 0>>, i) : i \in 0..5 }

\* the frame a user page of a space is translated to, None for a page that
\* is not mapped or not user-accessible
UserTarget(s, page) ==
    LET t == translate(Memory, spaces[s].pt_root, page)
    IN  IF t.kind = "Some" /\ USER_ACCESSIBLE \in t.flags THEN Some(t.frame)
        ELSE None

\* C29: user mappings are isolated: after any sequence of map_user_region
\* calls on address spaces that share one frame allocator, no physical
\* frame is the target of two different user pages, be they pages of one
\* address space or of two.
C29_UserMappingsIsolated ==
    \A s1, s2 \in 1..Len(spaces), p1, p2 \in LifePages :
        ( /\ <<s1, p1>> # <<s2, p2>>
          /\ UserTarget(s1, p1).kind = "Some"
          /\ UserTarget(s2, p2).kind = "Some" )
        => UserTarget(s1, p1).frame # UserTarget(s2, p2).frame

\* C30: when map_region (Allocate or Identity), map_region_zeroed,
\* map_user_region or create fails because the frame source cannot supply a
\* frame, be it for a data page, for a page table or for the root table, the
\* error returned is OutOfFrames.
C30_ExhaustionIsOutOfFrames ==
    ( /\ last.op \in {"map_region", "map_region_zeroed", "map_user_region", "create"}
      /\ last.refused # "none" )
    => last.ret = Err("OutOfFrames")

(***************************************************************************)
(* Further properties of the mappings (PagingSpec)                         *)
(***************************************************************************)
\* C31: if AddressSpace::create returns an error because the kernel mapping
\* was rejected by input validation (alignment, range or flags), the frame
\* allocator is left exactly as it was before the call: no frame has been
\* consumed.
C31_RejectedCreateConsumesNothing ==
    [][ (last'.op = "create" /\ Failed(last', ValidationErrors)) =>
            /\ frame_allocator' = frame_allocator
            /\ last'.drawn = << >> ]_vars

\* what the last call installed: page, frame and flags of each level-1 entry
\* written, in order
Translations(installs) ==
    [i \in 1..Len(installs) |->
        <<installs[i].page, installs[i].frame, installs[i].flags>>]

\* C34: map_region_zeroed and map_region in Allocate mode are equivalent
\* except for frame contents: from the same page tables and frame source,
\* with the same start, size and flags, they return the same result, install
\* the same page-to-frame translations and leave the frame source in the
\* same state.
C34_ZeroedRefinesAllocate ==
    [][ last'.op = "map_region_zeroed" =>
            LET l == last'
                r == map_region(Machine, RootOf(l), ArgStart(l), ArgSize(l),
                                ArgFlags(l), Allocate, debug_assertions)
            IN  /\ r.ret = l.ret
                /\ r.st.alloc = frame_allocator'
                /\ r.st.drawn = l.drawn
                /\ Translations(r.installs) = Translations(l.installs)
                /\ \A p \in ObservedPages :
                      translate(r.st, RootOf(l), p)
                        = translate(MemoryAfter, RootOf(l), p) ]_vars

\* the pages of the range of the last mapping call that had a translation
\* before the call, as offsets from the start
AlreadyMapped(l) ==
    { i \in 0..(PagesOf(ArgSize(l)) - 1) :
        translate(Memory, RootOf(l), PageAt(ArgStart(l), i)).kind = "Some" }

\* the call got past its validation and did not stop on a panic or on an
\* exhausted frame source
Attempted(l) ==
    /\ ~Failed(l, ValidationErrors)
    /\ l.ret.kind # "Panic"
    /\ l.refused = "none"

\* C35: mapping a range that contains a page which already has a translation
\* fails with MapFailed at the first such page and leaves the translation of
\* that page (frame and flags) as it was; no mapping call overwrites an
\* existing translation.
C35_NeverOverwrites ==
    [][ last'.op \in MappingOps =>
            LET l == last'
            IN  /\ (Attempted(l) /\ AlreadyMapped(l) # {}) =>
                      LET j == CHOOSE i \in AlreadyMapped(l) :
                                  \A k \in AlreadyMapped(l) : i <= k
                      IN  /\ l.ret = Err("MapFailed")
                          /\ Len(l.installs) = j
                /\ \A p \in ObservedPages :
                      translate(Memory, RootOf(l), p).kind = "Some" =>
                          translate(MemoryAfter, RootOf(l), p)
                            = translate(Memory, RootOf(l), p) ]_vars

\* C36: no frame is lost by a mapping call: when an Allocate-mode map_region
\* or a map_region_zeroed call returns, successfully or with an error, every
\* frame it drew from the frame source is installed in the page tables, as
\* the target of a page (the k-th data frame for the k-th page) or as an
\* intermediate table.
C36_NoFrameLost ==
    ( /\ last.op \in {"map_region", "map_region_zeroed"}
      /\ ArgMode(last) = Allocate
      /\ last.ret.kind # "Panic" )
    => LET data == DataFrames(last)
       IN  /\ Len(data) = Len(last.installs)
           /\ \A k \in 1..Len(data) : last.installs[k].frame = data[k].frame

C38_NoArithmeticAbort ==
    last.op \in {"map_user_region", "map_kernel_region"} =>
        last.ret.kind \in {"Ok", "Err"}

(***************************************************************************)
(* Further properties of the frame allocator (Spec)                        *)
(***************************************************************************)
\* the offsets j of the cyclic scan from the hint that meet a range with
\* frames left
NonEmptyFrom(self) ==
    { j \in 0..(self.len - 1) :
        LET range == self.ranges[((self.next + j) % self.len) + 1]
        IN  range[1] < range[2] }

\* C33: allocate_frame is first-fit from the remembered hint: a call returns
\* the current start of the first range with frames left in the cyclic scan
\* from the hint, advances that start by 4096, sets the hint to that range and
\* leaves the other ranges alone; with no such range it returns None and
\* changes nothing.  The hint never moves back to a lower index and is a
\* valid index whenever a range exists.
C33_FirstFitFromHint ==
    [][ last'.op = "allocate_frame" =>
            LET self == frame_allocator
                found == NonEmptyFrom(self)
            IN  IF found = {}
                THEN /\ last'.ret = None
                     /\ frame_allocator' = self
                ELSE LET j == CHOOSE x \in found : \A y \in found : x <= y
                         i == (self.next + j) % self.len
                         start == self.ranges[i + 1][1]
                     IN  /\ last'.ret = Some(start)
                         /\ frame_allocator'.ranges
                              = [self.ranges EXCEPT ![i + 1][1] = start + PAGE_SIZE]
                         /\ frame_allocator'.next = i
                         /\ frame_allocator'.next >= self.next
                         /\ frame_allocator'.next < frame_allocator'.len ]_vars

\* C39: available memory never grows: no step raises available_memory(), a
\* call that returns a frame lowers it by exactly 4096, is_low_memory() and
\* is_critical_memory() stay true once they are true, and
\* is_critical_memory() implies is_low_memory().
C39_AvailableNeverGrows ==
    [][ /\ available_memory(frame_allocator') <= available_memory(frame_allocator)
        /\ (last'.op \in {"allocate_frame", "try_allocate"} /\ last'.ret.kind = "Some")
              => available_memory(frame_allocator')
                   = available_memory(frame_allocator) - PAGE_SIZE
        /\ is_low_memory(frame_allocator) => is_low_memory(frame_allocator')
        /\ is_critical_memory(frame_allocator) => is_critical_memory(frame_allocator')
        /\ is_critical_memory(frame_allocator') => is_low_memory(frame_allocator') ]_vars

(***************************************************************************)
(* Construction from long memory maps                                      *)
(***************************************************************************)
\* The shortest long memory map: two regions fewer than the allocator keeps.
MinLongMap == MAX_USABLE_RANGES - 2

\* The i-th region of a long memory map: regions of one or two pages, 0x3000
\* apart from 0x200000 on.  In a "mixed" map every eighth region is one new()
\* passes over: a region that is not usable, or a usable one in low memory.
LongRegion(i, pattern) ==
    IF pattern = "mixed" /\ i % 16 = 0
    THEN Region(2097152 + (i - 1) * 12288, 2097152 + i * 12288, "Reserved")
    ELSE IF pattern = "mixed" /\ i % 8 = 0
    THEN Region(i * PAGE_SIZE, (i + 1) * PAGE_SIZE, "Usable")
    ELSE Region(2097152 + (i - 1) * 12288,
                2097152 + (i - 1) * 12288 + PAGE_SIZE * (1 + (i % 2)),
                "Usable")

LongMaps ==
    { [i \in 1..n |-> LongRegion(i, pattern)]
        : n \in MinLongMap..MaxLongMap, pattern \in {"usable", "mixed"} }

ConstructionInit ==
    /\ memory_regions \in LongMaps
    /\ kernel_start \in KernelStarts
    /\ kernel_end \in KernelEnds
    /\ Booted
    /\ cr3_flags = {}
    /\ ram = "stale"
    /\ debug_assertions = TRUE
    /\ last = [op |-> "new", ret |-> None, calls |-> 0]

ConstructionSpec == ConstructionInit /\ [][Next]_vars

\* the range new() derives from a region, and whether it keeps one at all
Trimmed(region) ==
    <<Max(align_up(region.start, PAGE_SIZE), reserved_end),
      align_down(region.end, PAGE_SIZE)>>

Qualifies(region) ==
    /\ region.kind = "Usable"
    /\ Trimmed(region)[1] < Trimmed(region)[2]

\* the regions of the memory map that qualify, in input order
Qualifying == SelectSeq(memory_regions, Qualifies)

RECURSIVE SizeOfFirst(_, _)
SizeOfFirst(regions, k) ==
    IF k = 0 THEN 0
    ELSE SizeOfFirst(regions, k - 1)
           + Trimmed(regions[k])[2] - Trimmed(regions[k])[1]

\* C32: construction retains at most 32 ranges: the ranges are those of the
\* first 32 qualifying regions in input order (all of them when there are
\* fewer), later regions are dropped, total_memory() is the size of the
\* retained ranges only, and range_count() never exceeds 32.
C32_AtMost32Retained ==
    LET kept == IF Len(Qualifying) < MAX_USABLE_RANGES
                THEN Len(Qualifying) ELSE MAX_USABLE_RANGES
    IN  /\ range_count(frame_allocator) = kept
        /\ range_count(frame_allocator) <= 32
        /\ \A i \in 1..kept :
              /\ frame_allocator.ranges[i][2] = Trimmed(Qualifying[i])[2]
              /\ last.calls = 0 =>
                    frame_allocator.ranges[i] = Trimmed(Qualifying[i])
        /\ total_memory(frame_allocator) = SizeOfFirst(Qualifying, kept)

\* more than 32 regions qualified, 32 ranges were kept, the regions dropped
\* are not counted, and a frame came out of the ranges kept
C32_Witness ==
    /\ Len(Qualifying) > MAX_USABLE_RANGES
    /\ range_count(frame_allocator) = MAX_USABLE_RANGES
    /\ total_memory(frame_allocator) < SizeOfFirst(Qualifying, Len(Qualifying))
    /\ last.op = "allocate_frame" /\ last.ret.kind = "Some"

====
